---- MODULE Spec2Model ----
(***************************************************************************)
(* A model of the TWI (two-wire interface) master library of               *)
(* src/twi/master.c: the clock set-up (set_up_twi_hardware), the bus       *)
(* driver primitives (start, address, write, read, stop), the retrying     *)
(* addressed start (ensure_twi_communication) and the bus-pirate command   *)
(* interpreter (perform_bus_pirate_twi_command).                           *)
(*                                                                         *)
(* The AVR TWI peripheral is the environment.  The driver talks to it      *)
(* through four registers (TWCR, TWDR, TWSR, TWBR); every busy-wait of the *)
(* driver is a program position at which only the hardware can move.       *)
(***************************************************************************)
EXTENDS Integers, Sequences, FiniteSets, TLC

VARIABLES
    TWCR,            \* control register: the set of bits that read as 1
    TWDR,            \* data register (8 bit)
    TWSR,            \* status register: status in bits 7..3, prescaler in bits 1..0
    TWBR,            \* bit-rate register (8 bit)
    ops,             \* driver primitives issued so far, in order
    done,            \* hardware completions, done[i] answering ops[i]
    pc,              \* position of the running function
    address,         \* ensure_twi_communication: parameter
    direction,       \* ensure_twi_communication: parameter
    twi_status,      \* ensure_twi_communication: local
    f_cpu,           \* F_CPU, the build's CPU clock in Hz
    twi_bitrate,     \* set_up_twi_hardware: parameter (uint32_t)
    prescaler,       \* set_up_twi_hardware: local (uint8_t)
    clock_periods,   \* set_up_twi_hardware: local (uint32_t)
    command,         \* perform_bus_pirate_twi_command: the command string
    cursor,          \* ... index of *command (1-based)
    radix,           \* ... local
    to_transmit,     \* ... local
    is_transmission, \* ... local
    read_count,      \* ... local
    va_args,         \* ... the variadic arguments the caller supplied
    va_next,         \* ... index of the next argument va_arg yields
    read_target,     \* ... local: where the byte read goes
    memory,          \* the caller's read targets (cells the pointers point to)
    retval,          \* value returned by the function that ran
    call,            \* the library function the caller entered last
    first            \* what the first of two runs of one command left behind

hw      == <<TWCR, TWDR, TWSR, TWBR>>
trace   == <<ops, done>>
ensure  == <<address, direction, twi_status>>
clock   == <<f_cpu, twi_bitrate, prescaler, clock_periods>>
interp  == <<command, cursor, radix, to_transmit, is_transmission, read_count,
             va_args, va_next, read_target, memory>>
vars    == <<TWCR, TWDR, TWSR, TWBR, ops, done, pc, address, direction,
             twi_status, f_cpu, twi_bitrate, prescaler, clock_periods, command,
             cursor, radix, to_transmit, is_transmission, read_count, va_args,
             va_next, read_target, memory, retval, call, first>>

-----------------------------------------------------------------------------
(* Fixed-width arithmetic.                                                 *)

Byte(n) == n % 256

\* A uint32_t is a pair <<high half, low half>> of 16-bit halves.
Half == 2^16

U32(n) == <<(n \div Half) % Half, n % Half>>

U32Max == <<Half - 1, Half - 1>>

\* uint32_t product with a small int factor (at most 128), wrapping at 2^32.
U32MulSmall(a, m) ==
    LET lo == a[2] * m
        hi == a[1] * m + (lo \div Half)
    IN  <<hi % Half, lo % Half>>

\* uint32_t difference, wrapping at 2^32.
U32Sub(a, b) ==
    LET borrow == IF a[2] < b[2] THEN 1 ELSE 0
        lo     == a[2] - b[2] + borrow * Half
        hi     == a[1] - b[1] - borrow
    IN  <<(hi + Half) % Half, lo>>

U32Above255(a) == a[1] > 0 \/ a[2] > 255

U32Low8(a) == a[2] % 256

\* What a uint32_t division by zero (undefined behaviour) may leave behind.
DivisionByZeroOutcomes == {U32(0), U32Max}

\* n / d for a numerator n below 2^31 and a uint32_t divisor d: the set of
\* results the build can produce (one result unless d is zero).
U32DivNat(n, d) ==
    IF d = U32(0) THEN DivisionByZeroOutcomes
    ELSE IF d[1] >= 2^15 THEN {U32(0)}
    ELSE {U32(n \div (d[1] * Half + d[2]))}

-----------------------------------------------------------------------------
(* Status codes of <util/twi.h>, as the driver compares them.              *)

TW_BUS_ERROR    == 0
TW_START        == 8
TW_REP_START    == 16
TW_MT_SLA_ACK   == 24
TW_MT_SLA_NACK  == 32
TW_MT_DATA_ACK  == 40
TW_MT_DATA_NACK == 48
TW_MT_ARB_LOST  == 56
TW_MR_SLA_ACK   == 64
TW_MR_SLA_NACK  == 72
TW_MR_DATA_ACK  == 80
TW_MR_DATA_NACK == 88
TW_NO_INFO      == 248

\* enum TWIDataDirection_enum and enum TWIReadMode_enum.
Read        == 1
Write       == 0
RequestMore == 1
LastByte    == 0

\* A function entered by the caller: its name and how many driver primitives
\* had been issued before it.
Call(fn) == [fn |-> fn, base |-> Len(ops)]
NoCall == [fn |-> "none", base |-> 0]

\* What a run of perform_bus_pirate_twi_command left behind, kept when the
\* caller runs the same command a second time.
NoRun == [taken |-> FALSE, ops |-> <<>>, done |-> <<>>, memory |-> <<>>,
          retval |-> 0]

\* TW_STATUS & 0xF8: the status with the prescaler bits masked off.
MaskedStatus_Unmasked(twsr) == twsr
MaskedStatus(twsr) == (twsr \div 8) * 8

-----------------------------------------------------------------------------
(* Clock set-up.                                                           *)

F_CPU_DEFAULT == 8000000

\* The CPU clocks the library is built for (F_CPU of the Makefile, or the
\* default).
FCpuChoices == {1000000, F_CPU_DEFAULT, 16000000}

\* Requested bit rates: a sweep of low rates and a list of particular ones,
\* among them zero, the edges of each prescaler's range, rates above
\* F_CPU / 16 and rates whose product with the prescaler wraps at 2^32.
MaxBitrateIndex == 40
BitrateStep     == 61

BitrateChoices ==
    {U32(k * BitrateStep) : k \in 0 .. MaxBitrateIndex}
    \cup {U32(n) : n \in {3000, 3875, 3876, 10000, 15151, 15152, 50000, 100000,
                          400000, 500000, 500001, 1000000}}
    \cup {<<2^9, 0>>, <<2^15, 1000>>}

\* (F_CPU / ((2 << (2 * prescaler)) * target_speed)) - (8 >> (prescaler * 2)),
\* in uint32_t arithmetic.
clock_periods_SameShift(fcpu, target_speed, p) ==
    {U32Sub(q, U32(8 \div (2 ^ p))) :
        q \in U32DivNat(fcpu, U32MulSmall(target_speed, 2 * (2 ^ (2 * p))))}
clock_periods_from_prescaler(fcpu, target_speed, p) ==
    {U32Sub(q, U32(8 \div (2 ^ (p * 2)))) :
        q \in U32DivNat(fcpu, U32MulSmall(target_speed, 2 * (2 ^ (2 * p))))}

\* while(clock_periods > 255 && prescaler < 3)
SetupLoopAgain_NoLimit(cp, p) == U32Above255(cp)
SetupLoopAgain(cp, p) == U32Above255(cp) /\ p < 3

\* TWSR &= ~0x03; TWSR |= prescaler;  (prescaler is at most 3 here)
ApplyPrescaler(twsr, p) == (twsr \div 4) * 4 + p

InitHardware ==
    /\ TWCR = {}
    /\ TWDR = 255
    /\ TWSR \in {TW_NO_INFO + p : p \in {0, 3}}
    /\ TWBR = 0

\* A call of set_up_twi_hardware(twi_bitrate); uint8_t prescaler = -1.
InitClock ==
    /\ InitHardware
    /\ ops = <<>>
    /\ done = <<>>
    /\ address = 0
    /\ direction = Write
    /\ twi_status = 0
    /\ f_cpu \in FCpuChoices
    /\ twi_bitrate \in BitrateChoices
    /\ prescaler = Byte(-1)
    /\ clock_periods = U32(0)
    /\ command = <<>>
    /\ cursor = 1
    /\ radix = 10
    /\ to_transmit = 0
    /\ is_transmission = 0
    /\ read_count = 0
    /\ va_args = <<>>
    /\ va_next = 1
    /\ read_target = 0
    /\ memory = <<>>
    /\ retval = 0
    /\ call = Call("set_up_twi_hardware")
    /\ first = NoRun
    /\ pc = "setup_loop"

\* One pass of the do-while loop body and its condition.
SetupIterate ==
    /\ pc = "setup_loop"
    /\ prescaler' = Byte(prescaler + 1)
    /\ \E cp \in clock_periods_from_prescaler(f_cpu, twi_bitrate, prescaler') :
          /\ clock_periods' = cp
          /\ pc' = IF SetupLoopAgain(cp, prescaler') THEN "setup_loop"
                   ELSE "setup_apply"
    /\ UNCHANGED <<hw, trace, ensure, f_cpu, twi_bitrate, interp, retval, call, first>>

\* The register writes after the loop: TWSR and TWBR = clock_periods.
SetupApply ==
    /\ pc = "setup_apply"
    /\ TWSR' = ApplyPrescaler(TWSR, prescaler)
    /\ TWBR' = U32Low8(clock_periods)
    /\ pc' = "returned"
    /\ UNCHANGED <<TWCR, TWDR, trace, ensure, clock, interp, retval, call, first>>

NextClock == SetupIterate \/ SetupApply

SpecClock == InitClock /\ [][NextClock]_vars

-----------------------------------------------------------------------------
(* The clock relationship the set-up is meant to solve, in exact integers. *)

\* The requested rate is above the CPU clock (so every quotient is zero).
ExceedsClock(fcpu, t) == t[1] >= 2^15 \/ t[1] * Half + t[2] > fcpu

RateOf(t) == t[1] * Half + t[2]

\* divisor = baseClockHz / (targetBitrateHz * 4^p * 2) - 8 / 4^p, each
\* division truncated; the difference may be negative.
SpecDivisor(fcpu, t, p) ==
    (IF ExceedsClock(fcpu, t) THEN 0 ELSE fcpu \div (RateOf(t) * (4 ^ p) * 2))
    - (8 \div (4 ^ p))

\* Some prescaler realises the rate with a divisor in [0,255]: the equation
\*   target = base / (16 + 2 * divisor * 4^p)
\* has a solution 0 <= divisor <= 255 for some p in 0..3, that is
\*   16 * target <= base <= (16 + 2 * 255 * 4^3) * target.
ValidPrescalerExists(fcpu, t) ==
    /\ t # U32(0)
    /\ ~ExceedsClock(fcpu, t)
    /\ 16 * RateOf(t) <= fcpu
    /\ (fcpu + RateOf(t) - 1) \div RateOf(t) <= 16 + 2 * 255 * (4 ^ 3)

\* No prescaler yields a divisor of at most 255.
NoPrescalerFits(fcpu, t) ==
    /\ t # U32(0)
    /\ ~ExceedsClock(fcpu, t)
    /\ \A p \in 0 .. 3 : SpecDivisor(fcpu, t, p) > 255

\* C9: when no prescaler in 0..3 yields a divisor of at most 255, the set-up
\* fails (an UnreachableBitrate condition reaches the caller): it never
\* completes as a normal return that has programmed the registers.
C9_UnreachableBitrateFails ==
    NoPrescalerFits(f_cpu, twi_bitrate) => pc # "returned"

\* What the code does in that case: prescaler 3 and the low 8 bits of a
\* divisor above 255 end up in the registers.
C9_TruncatedDivisorProgrammed ==
    (pc = "returned" /\ NoPrescalerFits(f_cpu, twi_bitrate)) =>
        /\ TWSR % 4 = 3
        /\ TWBR = SpecDivisor(f_cpu, twi_bitrate, 3) % 256

ExactDivisorFloor(fcpu, t, p) ==
    (fcpu - 16 * RateOf(t)) \div (2 * (4 ^ p) * RateOf(t))

\* C11: whenever a valid prescaler exists, the programmed pair reproduces the
\* requested rate within integer truncation: the exact divisor for the chosen
\* prescaler lies in [divisor, divisor + 1), for every prescaler, 2 and 3
\* included.
C11_DivisorWithinTruncation ==
    (pc = "returned" /\ ValidPrescalerExists(f_cpu, twi_bitrate)) =>
        TWBR = ExactDivisorFloor(f_cpu, twi_bitrate, TWSR % 4)

\* What the code does: exact within truncation for prescalers 0 and 1, where
\* 8 / 4^p is whole; for 2 and 3 the programmed divisor is the whole part of
\* the exact one or one more.
DivisorWithinTruncationOrOneAbove ==
    (pc = "returned" /\ ValidPrescalerExists(f_cpu, twi_bitrate)) =>
        LET p == TWSR % 4
            exact == ExactDivisorFloor(f_cpu, twi_bitrate, p)
        IN  IF p <= 1 THEN TWBR = exact ELSE TWBR \in {exact, exact + 1}
-----------------------------------------------------------------------------
(* The TWI peripheral.  Writing 1 to TWINT clears the flag and starts the  *)
(* operation the other bits of TWCR select; the hardware sets TWINT when   *)
(* the operation is over and leaves its outcome in the status bits of      *)
(* TWSR.  A stop sets no TWINT: the hardware clears TWSTO instead.  What   *)
(* a plain transfer (neither TWSTA nor TWSTO) does depends on the state    *)
(* the bus is in, which the status register shows.                         *)

\* The bytes the slave sends, in order (a register file read out in turn).
DeviceData == <<3, 165, 90>>

\* The byte the slave sends next: one byte further for every byte received.
NextDeviceByte ==
    LET received == Cardinality({i \in 1 .. Len(done) :
                        done[i].status \in {TW_MR_DATA_ACK, TW_MR_DATA_NACK}})
    IN  DeviceData[(received % Len(DeviceData)) + 1]

SetStatus(twsr, status) == status + (twsr % 8)

\* The master owns the bus: a further start is a repeated start.
OwnsBus(status) ==
    status \in {TW_START, TW_REP_START, TW_MT_SLA_ACK, TW_MT_SLA_NACK,
                TW_MT_DATA_ACK, TW_MT_DATA_NACK, TW_MR_SLA_ACK, TW_MR_SLA_NACK,
                TW_MR_DATA_ACK, TW_MR_DATA_NACK}

TransferPending ==
    /\ "TWEN" \in TWCR
    /\ "TWINT" \notin TWCR
    /\ "TWSTO" \notin TWCR

Complete(status, data) ==
    /\ TWCR' = TWCR \cup {"TWINT"}
    /\ TWSR' = SetStatus(TWSR, status)
    /\ TWDR' = data
    /\ done' = Append(done, [status |-> status, data |-> data])
    /\ UNCHANGED <<TWBR, ops, pc, ensure, clock, interp, retval, call, first>>

\* A start condition: the bus is obtained, or another master wins it.
HwStart ==
    /\ TransferPending
    /\ "TWSTA" \in TWCR
    /\ \E status \in {IF OwnsBus(MaskedStatus(TWSR)) THEN TW_REP_START
                      ELSE TW_START, TW_MT_ARB_LOST} :
          Complete(status, TWDR)

\* After a start, the byte in TWDR goes out as address and direction bit.
HwAddress ==
    /\ TransferPending
    /\ "TWSTA" \notin TWCR
    /\ MaskedStatus(TWSR) \in {TW_START, TW_REP_START}
    /\ \E status \in (IF TWDR % 2 = Write
                      THEN {TW_MT_SLA_ACK, TW_MT_SLA_NACK, TW_MT_ARB_LOST}
                      ELSE {TW_MR_SLA_ACK, TW_MR_SLA_NACK, TW_MT_ARB_LOST}) :
          Complete(status, TWDR)

\* In master transmitter mode the byte in TWDR goes out as data.
HwTransmit ==
    /\ TransferPending
    /\ "TWSTA" \notin TWCR
    /\ MaskedStatus(TWSR) \in {TW_MT_SLA_ACK, TW_MT_SLA_NACK, TW_MT_DATA_ACK,
                               TW_MT_DATA_NACK}
    /\ \E status \in {TW_MT_DATA_ACK, TW_MT_DATA_NACK, TW_MT_ARB_LOST} :
          Complete(status, TWDR)

\* In master receiver mode a byte comes in; TWEA decides ACK or NACK.
HwReceive ==
    /\ TransferPending
    /\ "TWSTA" \notin TWCR
    /\ MaskedStatus(TWSR) \in {TW_MR_SLA_ACK, TW_MR_DATA_ACK}
    /\ Complete(IF "TWEA" \in TWCR THEN TW_MR_DATA_ACK ELSE TW_MR_DATA_NACK,
                NextDeviceByte)

\* A stop condition: the bus is released and TWSTO reads 0 again.
HwStop ==
    /\ "TWEN" \in TWCR
    /\ "TWSTO" \in TWCR
    /\ TWCR' = TWCR \ {"TWSTO"}
    /\ TWSR' = SetStatus(TWSR, TW_NO_INFO)
    /\ done' = Append(done, [status |-> TW_NO_INFO, data |-> TWDR])
    /\ UNCHANGED <<TWDR, TWBR, ops, pc, ensure, clock, interp, retval, call, first>>

-----------------------------------------------------------------------------
(* The driver primitives: the register write of each, and what each makes  *)
(* of the registers once its wait is over.                                 *)

Op(name, arg) == [op |-> name, arg |-> arg]

\* send_twi_start_condition: TWCR = (1 << TWINT) | (1 << TWSTA) | (1 << TWEN)
IssueStart ==
    /\ TWCR' = {"TWSTA", "TWEN"}
    /\ ops' = Append(ops, Op("start", 0))
    /\ UNCHANGED <<TWDR, TWSR, TWBR, done>>

\* raw_twi_write: TWDR = data; TWCR = (1 << TWINT) | (1 << TWEN)
IssueWrite(data) ==
    /\ TWDR' = data
    /\ TWCR' = {"TWEN"}
    /\ ops' = Append(ops, Op("write", data))
    /\ UNCHANGED <<TWSR, TWBR, done>>

\* read_via_twi: TWCR = (1 << TWINT) | (1 << TWEN) | (read_mode << TWEA)
IssueRead_AlwaysAcknowledge(read_mode) ==
    /\ TWCR' = {"TWEN", "TWEA"}
    /\ ops' = Append(ops, Op("read", read_mode))
    /\ UNCHANGED <<TWDR, TWSR, TWBR, done>>
IssueRead(read_mode) ==
    /\ TWCR' = {"TWEN"} \cup (IF read_mode = RequestMore THEN {"TWEA"} ELSE {})
    /\ ops' = Append(ops, Op("read", read_mode))
    /\ UNCHANGED <<TWDR, TWSR, TWBR, done>>

\* end_twi_packet: TWCR = (1 << TWINT) | (1 << TWSTO) | (1 << TWEN)
IssueStop_KeepsStart ==
    /\ TWCR' = (TWCR \cap {"TWSTA"}) \cup {"TWSTO", "TWEN"}
    /\ ops' = Append(ops, Op("stop", 0))
    /\ UNCHANGED <<TWDR, TWSR, TWBR, done>>
IssueStop ==
    /\ TWCR' = {"TWSTO", "TWEN"}
    /\ ops' = Append(ops, Op("stop", 0))
    /\ UNCHANGED <<TWDR, TWSR, TWBR, done>>

\* wait_for_twi_operation_to_complete: while(!(TWCR & (1 << TWINT)));
OperationComplete_GivesUp == TRUE
OperationComplete == "TWINT" \in TWCR

\* end_twi_packet: while(TWCR & (1 << TWSTO));
StopComplete_AtOnce == TRUE
StopComplete == "TWSTO" \notin TWCR

\* send_twi_start_condition's result.
StartSucceeded_Always == TRUE
StartSucceeded ==
    MaskedStatus(TWSR) = TW_START \/ MaskedStatus(TWSR) = TW_REP_START

\* raw_twi_write's result: TW_STATUS & 0xF8.
RawWriteStatus == MaskedStatus(TWSR)

\* send_via_twi's result.
SendAcknowledged_AnyAcknowledge ==
    RawWriteStatus = TW_MT_DATA_ACK \/ RawWriteStatus = TW_MT_SLA_ACK
SendAcknowledged == RawWriteStatus = TW_MT_DATA_ACK

NumOps(name) == Cardinality({i \in 1 .. Len(ops) : ops[i].op = name})

-----------------------------------------------------------------------------
(* ensure_twi_communication(address, direction).                           *)

\* Addresses callers pass (uint8_t; the sensors' 0x29 and 0x39, and one with
\* bit 7 set).
AddressChoices == {41, 57, 169}

\* Start conditions one call may issue before the model stops following it.
MaxAttempts == 4

\* address << 1 | direction, passed as uint8_t (direction is 0 or 1).
AddressByte_Unshifted(addr, dir) == Byte(addr + dir)
AddressByte(addr, dir) == Byte(addr * 2 + dir)

\* The status test that makes the loop release the bus and go round again.
EnsureMustRetry(status) ==
    status = TW_MT_SLA_NACK \/ status = TW_MR_DATA_NACK

InitRetry ==
    /\ InitHardware
    /\ ops = <<>>
    /\ done = <<>>
    /\ address \in AddressChoices
    /\ direction \in {Read, Write}
    /\ twi_status = 0
    /\ f_cpu = F_CPU_DEFAULT
    /\ twi_bitrate = U32(0)
    /\ prescaler = 0
    /\ clock_periods = U32(0)
    /\ command = <<>>
    /\ cursor = 1
    /\ radix = 10
    /\ to_transmit = 0
    /\ is_transmission = 0
    /\ read_count = 0
    /\ va_args = <<>>
    /\ va_next = 1
    /\ read_target = 0
    /\ memory = <<>>
    /\ retval = 0
    /\ call = Call("ensure_twi_communication")
    /\ first = NoRun
    /\ pc = "ensure_loop"

\* Top of the loop: send_twi_start_condition() up to its wait.
EnsureStart ==
    /\ pc = "ensure_loop"
    /\ NumOps("start") < MaxAttempts
    /\ IssueStart
    /\ pc' = "ensure_start_wait"
    /\ UNCHANGED <<ensure, clock, interp, retval, call, first>>

\* The start is over: continue on failure, else send the address byte.
EnsureStartDone ==
    /\ pc = "ensure_start_wait"
    /\ OperationComplete
    /\ IF ~StartSucceeded
       THEN /\ pc' = "ensure_loop"
            /\ UNCHANGED <<hw, trace>>
       ELSE /\ IssueWrite(AddressByte(address, direction))
            /\ pc' = "ensure_address_wait"
    /\ UNCHANGED <<ensure, clock, interp, retval, call, first>>

\* The address byte is over: stop and retry, or break out of the loop.
EnsureAddressDone ==
    /\ pc = "ensure_address_wait"
    /\ OperationComplete
    /\ twi_status' = RawWriteStatus
    /\ IF EnsureMustRetry(twi_status')
       THEN /\ IssueStop
            /\ pc' = "ensure_stop_wait"
       ELSE /\ pc' = "returned"
            /\ UNCHANGED <<hw, trace>>
    /\ UNCHANGED <<address, direction, clock, interp, retval, call, first>>

\* end_twi_packet() is over: next round.
EnsureStopDone ==
    /\ pc = "ensure_stop_wait"
    /\ StopComplete
    /\ pc' = "ensure_loop"
    /\ UNCHANGED <<hw, trace, ensure, clock, interp, retval, call, first>>

NextRetry ==
    \/ EnsureStart
    \/ EnsureStartDone
    \/ EnsureAddressDone
    \/ EnsureStopDone
    \/ HwStart
    \/ HwAddress
    \/ HwStop

SpecRetry == InitRetry /\ [][NextRetry]_vars

\* The answers the hardware gave to the operations named name.
AnswersTo(name) == {i \in 1 .. Len(done) : ops[i].op = name}

AllStartsSucceeded ==
    \A i \in AnswersTo("start") : done[i].status \in {TW_START, TW_REP_START}

AddressAck == {TW_MT_SLA_ACK, TW_MR_SLA_ACK}
AddressNack == {TW_MT_SLA_NACK, TW_MR_SLA_NACK}

\* The address bytes the slave refused.
RefusedAddresses == {i \in AnswersTo("write") : done[i].status \in AddressNack}

\* C1: when the device refuses the address byte of the first N attempts and
\* acknowledges attempt N+1 (every start succeeding), the call issues exactly
\* N stops and N+1 starts and returns only after attempt N+1: a returned call
\* whose starts all succeeded and whose address bytes were each acknowledged
\* or refused has one stop per refusal, one start more, and an acknowledged
\* last address byte.
C1_RetriesUntilAcknowledged ==
    (/\ pc = "returned"
     /\ AllStartsSucceeded
     /\ \A i \in AnswersTo("write") : done[i].status \in AddressAck \cup AddressNack)
    => /\ NumOps("stop") = Cardinality(RefusedAddresses)
       /\ NumOps("start") = Cardinality(RefusedAddresses) + 1
       /\ done[Len(done)].status \in AddressAck

\* C2: the call returns only on success: whenever it has returned, the last
\* address byte was acknowledged (MT_SLA_ACK or MR_SLA_ACK).
C2_ReturnsOnlyOnAck ==
    pc = "returned" => done[Len(done)].status \in AddressAck

\* What the code does: it returns on every status other than MT_SLA_NACK and
\* MR_DATA_NACK, and for a write it retries exactly as C1 says.
EnsureReturnsUnlessRetryStatus ==
    pc = "returned" => ~EnsureMustRetry(done[Len(done)].status)

EnsureWriteRetriesUntilAcknowledged ==
    (/\ pc = "returned"
     /\ direction = Write
     /\ AllStartsSucceeded
     /\ \A i \in AnswersTo("write") : done[i].status \in AddressAck \cup AddressNack)
    => /\ NumOps("stop") = Cardinality(RefusedAddresses)
       /\ NumOps("start") = Cardinality(RefusedAddresses) + 1
       /\ done[Len(done)].status \in AddressAck

-----------------------------------------------------------------------------
(* perform_bus_pirate_twi_command(command, ...).                           *)

\* The character codes the literal tests compare.
Ascii ==
    (" " :> 32) @@ ("&" :> 38) @@ ("," :> 44) @@ ("/" :> 47) @@ ("0" :> 48) @@
    ("1" :> 49) @@ ("2" :> 50) @@ ("3" :> 51) @@ ("4" :> 52) @@ ("5" :> 53) @@
    ("6" :> 54) @@ ("7" :> 55) @@ ("8" :> 56) @@ ("9" :> 57) @@ (":" :> 58) @@
    ("@" :> 64) @@ ("A" :> 65) @@ ("B" :> 66) @@ ("C" :> 67) @@ ("D" :> 68) @@
    ("E" :> 69) @@ ("F" :> 70) @@ ("G" :> 71) @@ ("R" :> 82) @@ ("S" :> 83) @@
    ("W" :> 87) @@ ("X" :> 88) @@ ("[" :> 91) @@ ("]" :> 93) @@
    ("a" :> 97) @@ ("b" :> 98) @@ ("c" :> 99) @@ ("d" :> 100) @@ ("e" :> 101) @@
    ("f" :> 102) @@ ("g" :> 103) @@ ("h" :> 104) @@ ("r" :> 114) @@
    ("s" :> 115) @@ ("w" :> 119) @@ ("x" :> 120) @@ ("{" :> 123) @@ ("}" :> 125)

Characters == DOMAIN Ascii

\* The case labels of the switch; "default" for every other character.
TokenCase(c) ==
    CASE c \in {"{", "["} -> "start"
      [] c \in {"}", "]"} -> "stop"
      [] c = "x" -> "hex"
      [] c = "b" -> "binary"
      [] c \in {"r", "R", "s", "S"} -> "read"
      [] c \in {"w", "W"} -> "write"
      [] c \in {" ", ","} -> "delimiter"
      [] c = "&" -> "delay"
      [] OTHER -> "default"

\* if(*command == 's' || *command == 'S') read_mode = LastByte; else RequestMore
ReadModeOf_AlwaysMore(c) == RequestMore
ReadModeOf(c) == IF c = "s" \/ c = "S" THEN LastByte ELSE RequestMore

\* The four tests of the default case.
is_lowercase_hex(c, r) == Ascii[c] >= Ascii["a"] /\ Ascii[c] <= Ascii["f"] /\ r = 16
is_uppercase_hex(c, r) == Ascii[c] >= Ascii["A"] /\ Ascii[c] <= Ascii["F"] /\ r = 16
is_decimal_digit(c, r) == Ascii[c] >= Ascii["0"] /\ Ascii[c] <= Ascii["9"] /\ r >= 10
is_valid_binary(c, r)  == Ascii[c] >= Ascii["0"] /\ Ascii[c] <= Ascii["1"] /\ r = 2

\* The character is a piece of a literal (else it is skipped).
IsLiteralPiece_AnyDecimalDigit(c, r) ==
    \/ is_lowercase_hex(c, r)
    \/ is_uppercase_hex(c, r)
    \/ is_decimal_digit(c, 10)
IsLiteralPiece(c, r) ==
    \/ is_lowercase_hex(c, r)
    \/ is_uppercase_hex(c, r)
    \/ is_decimal_digit(c, r)
    \/ is_valid_binary(c, r)

\* numeric_value of a piece of a literal.
numeric_value(c, r) ==
    IF is_lowercase_hex(c, r) THEN Ascii[c] - Ascii["a"] + 10
    ELSE IF is_uppercase_hex(c, r) THEN Ascii[c] - Ascii["A"] + 10
    ELSE Ascii[c] - Ascii["0"]

\* to_transmit *= radix; to_transmit += numeric_value;  (uint8_t)
Accumulate(acc, r, c) == Byte(Byte(acc * r) + numeric_value(c, r))

\* to_transmit = va_arg(variadic_arguments, unsigned int): the argument takes
\* the place of whatever literal was queued.
ArgumentToTransmit_KeepsLiteral(queued, arg) ==
    IF queued # 0 THEN queued ELSE Byte(arg)
ArgumentToTransmit(queued, arg) == Byte(arg)

\* if(is_transmission)
QueuedTransmission_Always(flag) == TRUE
QueuedTransmission(flag) == flag # 0

\* The character under the cursor ("" at the terminating NUL).
AtEnd == cursor > Len(command)
Current == IF AtEnd THEN "" ELSE command[cursor]

InLoop(case) == pc = "interp_loop" /\ ~AtEnd /\ TokenCase(Current) = case

\* '{' or '[': send_twi_start_condition(), up to its wait.
InterpStart ==
    /\ InLoop("start")
    /\ IssueStart
    /\ pc' = "interp_start_wait"
    /\ UNCHANGED <<ensure, clock, interp, retval, call, first>>

\* The start is over; its result is dropped.
InterpStartDone ==
    /\ pc = "interp_start_wait"
    /\ OperationComplete
    /\ cursor' = cursor + 1
    /\ pc' = "interp_loop"
    /\ UNCHANGED <<hw, trace, ensure, clock, command, radix, to_transmit,
                   is_transmission, read_count, va_args, va_next, read_target,
                   memory, retval, call, first>>

\* '}' or ']': end_twi_packet(), up to its wait.
InterpStop ==
    /\ InLoop("stop")
    /\ IssueStop
    /\ pc' = "interp_stop_wait"
    /\ UNCHANGED <<ensure, clock, interp, retval, call, first>>

InterpStopDone_ResetsLiteral ==
    /\ pc = "interp_stop_wait"
    /\ StopComplete
    /\ radix' = 10
    /\ to_transmit' = 0
    /\ is_transmission' = 0
    /\ cursor' = cursor + 1
    /\ pc' = "interp_loop"
    /\ UNCHANGED <<hw, trace, ensure, clock, command, read_count, va_args,
                   va_next, read_target, memory, retval, call, first>>
InterpStopDone ==
    /\ pc = "interp_stop_wait"
    /\ StopComplete
    /\ cursor' = cursor + 1
    /\ pc' = "interp_loop"
    /\ UNCHANGED <<hw, trace, ensure, clock, command, radix, to_transmit,
                   is_transmission, read_count, va_args, va_next, read_target,
                   memory, retval, call, first>>

\* 'x': radix = 16.   'b': radix = 2.
InterpRadix_RestartsLiteral ==
    /\ pc = "interp_loop"
    /\ ~AtEnd
    /\ TokenCase(Current) \in {"hex", "binary"}
    /\ radix' = IF TokenCase(Current) = "hex" THEN 16 ELSE 2
    /\ to_transmit' = 0
    /\ is_transmission' = 0
    /\ cursor' = cursor + 1
    /\ UNCHANGED <<hw, trace, pc, ensure, clock, command, read_count, va_args,
                   va_next, read_target, memory, retval, call, first>>
InterpRadix ==
    /\ pc = "interp_loop"
    /\ ~AtEnd
    /\ TokenCase(Current) \in {"hex", "binary"}
    /\ radix' = IF TokenCase(Current) = "hex" THEN 16 ELSE 2
    /\ cursor' = cursor + 1
    /\ UNCHANGED <<hw, trace, pc, ensure, clock, command, to_transmit,
                   is_transmission, read_count, va_args, va_next, read_target,
                   memory, retval, call, first>>

\* 'r', 'R', 's', 'S': read_target = va_arg(...); read_via_twi(read_mode), up
\* to its wait.
InterpRead ==
    /\ InLoop("read")
    /\ read_target' = va_args[va_next].val
    /\ va_next' = va_next + 1
    /\ IssueRead(ReadModeOf(Current))
    /\ pc' = "interp_read_wait"
    /\ UNCHANGED <<ensure, clock, command, cursor, radix, to_transmit,
                   is_transmission, read_count, va_args, memory, retval, call, first>>

\* The read is over: *read_target = TWDR; ++read_count.
InterpReadDone ==
    /\ pc = "interp_read_wait"
    /\ OperationComplete
    /\ memory' = [memory EXCEPT ![read_target] = TWDR]
    /\ read_count' = Byte(read_count + 1)
    /\ cursor' = cursor + 1
    /\ pc' = "interp_loop"
    /\ UNCHANGED <<hw, trace, ensure, clock, command, radix, to_transmit,
                   is_transmission, va_args, va_next, read_target, retval, call, first>>

\* 'w' or 'W': is_transmission = 1; to_transmit = va_arg(..., unsigned int);
\* and on into the delimiter case, whose test is now true.
InterpWriteArgument ==
    /\ InLoop("write")
    /\ is_transmission' = 1
    /\ to_transmit' = ArgumentToTransmit(to_transmit, va_args[va_next].val)
    /\ va_next' = va_next + 1
    /\ IssueWrite(to_transmit')
    /\ pc' = "interp_write_wait"
    /\ UNCHANGED <<ensure, clock, command, cursor, radix, read_count, va_args,
                   read_target, memory, retval, call, first>>

\* ' ' or ',': send_via_twi(to_transmit) if a transmission is queued, else
\* the reset at once.
InterpDelimiter ==
    /\ InLoop("delimiter")
    /\ IF QueuedTransmission(is_transmission)
       THEN /\ IssueWrite(to_transmit)
            /\ pc' = "interp_write_wait"
            /\ UNCHANGED <<cursor, radix, to_transmit, is_transmission>>
       ELSE /\ radix' = 10
            /\ is_transmission' = 0
            /\ to_transmit' = 0
            /\ cursor' = cursor + 1
            /\ UNCHANGED <<hw, trace, pc>>
    /\ UNCHANGED <<ensure, clock, command, read_count, va_args, va_next,
                   read_target, memory, retval, call, first>>

\* send_via_twi is over (result dropped): radix = 10; is_transmission =
\* to_transmit = 0.
InterpWriteDone_GivesUpOnNack ==
    /\ pc = "interp_write_wait"
    /\ OperationComplete
    /\ radix' = 10
    /\ is_transmission' = 0
    /\ to_transmit' = 0
    /\ cursor' = IF SendAcknowledged THEN cursor + 1 ELSE Len(command) + 1
    /\ pc' = "interp_loop"
    /\ UNCHANGED <<hw, trace, ensure, clock, command, read_count, va_args,
                   va_next, read_target, memory, retval, call, first>>
InterpWriteDone ==
    /\ pc = "interp_write_wait"
    /\ OperationComplete
    /\ radix' = 10
    /\ is_transmission' = 0
    /\ to_transmit' = 0
    /\ cursor' = cursor + 1
    /\ pc' = "interp_loop"
    /\ UNCHANGED <<hw, trace, ensure, clock, command, read_count, va_args,
                   va_next, read_target, memory, retval, call, first>>

\* '&': _delay_us(1).
InterpDelay ==
    /\ InLoop("delay")
    /\ cursor' = cursor + 1
    /\ UNCHANGED <<hw, trace, pc, ensure, clock, command, radix, to_transmit,
                   is_transmission, read_count, va_args, va_next, read_target,
                   memory, retval, call, first>>

\* default: a piece of a literal is accumulated, anything else is skipped.
InterpDefault ==
    /\ InLoop("default")
    /\ IF IsLiteralPiece(Current, radix)
       THEN /\ is_transmission' = 1
            /\ to_transmit' = Accumulate(to_transmit, radix, Current)
       ELSE UNCHANGED <<is_transmission, to_transmit>>
    /\ cursor' = cursor + 1
    /\ UNCHANGED <<hw, trace, pc, ensure, clock, command, radix, read_count,
                   va_args, va_next, read_target, memory, retval, call, first>>

\* The terminating NUL: va_end; return read_count.
InterpReturn ==
    /\ pc = "interp_loop"
    /\ AtEnd
    /\ retval' = read_count
    /\ pc' = "returned"
    /\ UNCHANGED <<hw, trace, ensure, clock, interp, call, first>>

NextInterp ==
    \/ InterpStart
    \/ InterpStartDone
    \/ InterpStop
    \/ InterpStopDone
    \/ InterpRadix
    \/ InterpRead
    \/ InterpReadDone
    \/ InterpWriteArgument
    \/ InterpDelimiter
    \/ InterpWriteDone
    \/ InterpDelay
    \/ InterpDefault
    \/ InterpReturn
    \/ HwStart
    \/ HwAddress
    \/ HwTransmit
    \/ HwReceive
    \/ HwStop

-----------------------------------------------------------------------------
(* The calls of perform_bus_pirate_twi_command the model follows.          *)

\* "[ 0x52 0x80 0x03 [ 0x53 s ]"
EnableSensorCommand ==
    <<"[", " ", "0", "x", "5", "2", " ", "0", "x", "8", "0", " ", "0", "x",
      "0", "3", " ", "[", " ", "0", "x", "5", "3", " ", "s", " ", "]">>

\* "[0x72 0xAC [0x73 r s]"
ReadTwoCommand ==
    <<"[", "0", "x", "7", "2", " ", "0", "x", "A", "C", " ", "[", "0", "x",
      "7", "3", " ", "r", " ", "s", "]">>

\* "[ 0x72 0x80 w ]"
WriteArgumentCommand ==
    <<"[", " ", "0", "x", "7", "2", " ", "0", "x", "8", "0", " ", "w", " ",
      "]">>

\* "[ 0x52 w [ 0x53 s ]"
ReadIdCommand ==
    <<"[", " ", "0", "x", "5", "2", " ", "w", " ", "[", " ", "0", "x", "5",
      "3", " ", "s", " ", "]">>

\* "[ 0x72 0x8A [ 0x73 r ]"
HeaderExampleCommand ==
    <<"[", " ", "0", "x", "7", "2", " ", "0", "x", "8", "A", " ", "[", " ",
      "0", "x", "7", "3", " ", "r", " ", "]">>

\* "{ 0x53 R,S }&"
BraceCommand ==
    <<"{", " ", "0", "x", "5", "3", " ", "R", ",", "S", " ", "}", "&">>

\* "[0x1F ]": a literal with its radix token inside.
HexLiteralCommand == <<"[", "0", "x", "1", "F", " ", "]">>

\* "[0x52]": a literal with no delimiter before the stop.
UndelimitedCommand == <<"[", "0", "x", "5", "2", "]">>

\* "[w256 " and "[w300 ": literals above 255.
WrapCommands ==
    {<<"[", "w", "2", "5", "6", " ">>, <<"[", "w", "3", "0", "0", " ">>}

SampleCommands ==
    {EnableSensorCommand, ReadTwoCommand, WriteArgumentCommand, ReadIdCommand,
     HeaderExampleCommand, BraceCommand, HexLiteralCommand, UndelimitedCommand}
    \cup WrapCommands

\* All strings over A of length at most n.
Strings(A, n) == UNION {[1 .. k -> A] : k \in 0 .. n}

\* Every string of at most MaxTail characters over a core alphabet, alone and
\* after "[w" (a start and an address byte taken from the arguments).
MaxTail == 3
CoreAlphabet == {"[", "]", " ", "x", "b", "1", "r", "w"}
Prefixes == {<<>>, <<"[", "w">>}
TailCommands == {p \o t : p \in Prefixes, t \in Strings(CoreAlphabet, MaxTail)}

\* Every character after "[w", under each radix, with and without a digit
\* before it, followed by a delimiter.
RadixPrefixes == {<<>>, <<"x">>, <<"b">>, <<"1">>, <<"x", "1">>, <<"b", "1">>}
CharacterCommands ==
    {<<"[", "w">> \o rp \o <<c, d>> :
        rp \in RadixPrefixes, c \in Characters, d \in {" ", ","}}

\* "[w" and 2^8 read tokens: one more than read_count can count.
ManyReadsCommand == <<"[", "w">> \o [i \in 1 .. 2^8 |-> "r"]

Commands == SampleCommands \cup TailCommands \cup CharacterCommands

IsArgumentToken(c) == TokenCase(c) \in {"read", "write"}
IsWriteToken(c) == TokenCase(c) = "write"

\* The number of characters of s[1..n] that the switch sends to case.
CountUpTo(s, n, case) == Cardinality({i \in 1 .. n : TokenCase(s[i]) = case})

\* The values callers pass for the write tokens: the k-th token gets the k-th
\* value of one of these lists (0x53 addresses a slave for reading, 0x92 for
\* writing).
WriteValuePatterns == {<<83, 146, 85>>, <<146, 83, 85>>}

WriteValuesFor(cmd, pattern) ==
    [k \in 1 .. CountUpTo(cmd, Len(cmd), "write") |->
        pattern[((k - 1) % Len(pattern)) + 1]]

\* The variadic arguments of a call that keeps the contract: one value per
\* write token and one pointer per read token, in the order of the tokens; the
\* k-th pointer points to the caller's k-th cell.
ArgumentsFor(cmd, values) ==
    LET tokens == SelectSeq([i \in 1 .. Len(cmd) |-> i],
                            LAMBDA i : IsArgumentToken(cmd[i]))
    IN  [j \in 1 .. Len(tokens) |->
            IF IsWriteToken(cmd[tokens[j]])
            THEN [kind |-> "value",
                  val |-> values[CountUpTo(cmd, tokens[j], "write")]]
            ELSE [kind |-> "pointer",
                  val |-> CountUpTo(cmd, tokens[j], "read")]]

\* The state at the entry of perform_bus_pirate_twi_command(cmd, ...).
InterpCall(cmd, values) ==
    /\ InitHardware
    /\ ops = <<>>
    /\ done = <<>>
    /\ address = 0
    /\ direction = Write
    /\ twi_status = 0
    /\ f_cpu = F_CPU_DEFAULT
    /\ twi_bitrate = U32(0)
    /\ prescaler = 0
    /\ clock_periods = U32(0)
    /\ command = cmd
    /\ cursor = 1
    /\ radix = 10
    /\ to_transmit = 0
    /\ is_transmission = 0
    /\ read_count = 0
    /\ va_args = ArgumentsFor(cmd, values)
    /\ va_next = 1
    /\ read_target = 0
    /\ memory = [k \in 1 .. CountUpTo(cmd, Len(cmd), "read") |-> "untouched"]
    /\ retval = 0
    /\ call = Call("perform_bus_pirate_twi_command")
    /\ first = NoRun
    /\ pc = "interp_loop"

InitInterp ==
    \E cmd \in Commands, pattern \in WriteValuePatterns :
        InterpCall(cmd, WriteValuesFor(cmd, pattern))

SpecInterp == InitInterp /\ [][NextInterp]_vars

\* The call with 2^8 read tokens, its "w" addressing the slave for reading.
InitManyReads == InterpCall(ManyReadsCommand, <<83>>)

NextManyReads ==
    \/ InterpStart
    \/ InterpStartDone
    \/ InterpWriteArgument
    \/ InterpWriteDone
    \/ InterpRead
    \/ InterpReadDone
    \/ InterpReturn
    \/ HwStart
    \/ HwAddress
    \/ HwReceive

SpecManyReads == InitManyReads /\ [][NextManyReads]_vars

-----------------------------------------------------------------------------
(* The mini-language as the token table defines it, character by           *)
(* character: the reference the interpreter is compared with.              *)

DecimalDigits == <<"0", "1", "2", "3", "4", "5", "6", "7", "8", "9">>
LowerHexDigits == <<"a", "b", "c", "d", "e", "f">>
UpperHexDigits == <<"A", "B", "C", "D", "E", "F">>

IndexIn(digits, c) == CHOOSE i \in 1 .. Len(digits) : digits[i] = c
Among(digits, c) == \E i \in 1 .. Len(digits) : digits[i] = c

\* A digit valid under radix r: 0-9 (decimal), 0-1 (binary), 0-9 a-f A-F (hex).
TableDigit(c, r) ==
    \/ r = 10 /\ Among(DecimalDigits, c)
    \/ r = 2 /\ c \in {"0", "1"}
    \/ r = 16 /\ (\/ Among(DecimalDigits, c)
                  \/ Among(LowerHexDigits, c)
                  \/ Among(UpperHexDigits, c))

TableDigitValue(c) ==
    IF Among(DecimalDigits, c) THEN IndexIn(DecimalDigits, c) - 1
    ELSE IF Among(LowerHexDigits, c) THEN IndexIn(LowerHexDigits, c) + 9
    ELSE IndexIn(UpperHexDigits, c) + 9

TableReadTokens == {"r", "R", "s", "S"}
TableWriteTokens == {"w", "W"}
TableDelimiters == {" ", ","}

\* The values and the read slots the caller supplied, each in order.
CallerWriteValues ==
    LET entries == SelectSeq(va_args, LAMBDA a : a.kind = "value")
    IN  [k \in 1 .. Len(entries) |-> entries[k].val]
CallerReadSlots ==
    LET entries == SelectSeq(va_args, LAMBDA a : a.kind = "pointer")
    IN  [k \in 1 .. Len(entries) |-> entries[k].val]

\* The bus operations the token table prescribes for cmd[i..], the
\* interpreter state being (r, acc, pending) and k write values consumed.
RECURSIVE TableOps(_, _, _, _, _, _, _)
TableOps(cmd, values, i, r, acc, pending, k) ==
    IF i > Len(cmd) THEN <<>>
    ELSE LET c == cmd[i] IN
         IF TableDigit(c, r)
         THEN TableOps(cmd, values, i + 1, r, Byte(acc * r + TableDigitValue(c)),
                       TRUE, k)
         ELSE IF c \in {"[", "{"}
         THEN <<Op("start", 0)>> \o TableOps(cmd, values, i + 1, r, acc, pending, k)
         ELSE IF c \in {"]", "}"}
         THEN <<Op("stop", 0)>> \o TableOps(cmd, values, i + 1, r, acc, pending, k)
         ELSE IF c = "x"
         THEN TableOps(cmd, values, i + 1, 16, acc, pending, k)
         ELSE IF c = "b"
         THEN TableOps(cmd, values, i + 1, 2, acc, pending, k)
         ELSE IF c \in {"r", "R"}
         THEN <<Op("read", RequestMore)>>
              \o TableOps(cmd, values, i + 1, r, acc, pending, k)
         ELSE IF c \in {"s", "S"}
         THEN <<Op("read", LastByte)>>
              \o TableOps(cmd, values, i + 1, r, acc, pending, k)
         ELSE IF c \in TableWriteTokens
         THEN <<Op("write", Byte(values[k + 1]))>>
              \o TableOps(cmd, values, i + 1, 10, 0, FALSE, k + 1)
         ELSE IF c \in TableDelimiters
         THEN (IF pending THEN <<Op("write", acc)>> ELSE <<>>)
              \o TableOps(cmd, values, i + 1, 10, 0, FALSE, k)
         ELSE TableOps(cmd, values, i + 1, r, acc, pending, k)

\* Every numeric literal of cmd[i..] is followed by a space or a comma: while
\* a literal is pending only its digits, a radix token or the delimiter that
\* ends it may come.
RECURSIVE LiteralsDelimited(_, _, _, _)
LiteralsDelimited(cmd, i, r, pending) ==
    IF i > Len(cmd) THEN ~pending
    ELSE LET c == cmd[i] IN
         IF TableDigit(c, r) THEN LiteralsDelimited(cmd, i + 1, r, TRUE)
         ELSE IF c = "x" THEN LiteralsDelimited(cmd, i + 1, 16, pending)
         ELSE IF c = "b" THEN LiteralsDelimited(cmd, i + 1, 2, pending)
         ELSE IF c \in TableDelimiters \/ c \in TableWriteTokens
         THEN ~(pending /\ c \in TableWriteTokens)
              /\ LiteralsDelimited(cmd, i + 1, 10, FALSE)
         ELSE ~pending /\ LiteralsDelimited(cmd, i + 1, r, pending)

\* Every operation was answered with an acknowledge (no NACK, no lost
\* arbitration).
AlwaysAcknowledged ==
    \A i \in 1 .. Len(done) :
        done[i].status \notin {TW_MT_SLA_NACK, TW_MT_DATA_NACK, TW_MT_ARB_LOST,
                               TW_MR_SLA_NACK}

\* C3: for every command string whose numeric literals are each followed by a
\* space or comma, the interpreter issues the bus operations in command-string
\* order: a start per '[' or '{', a stop per ']' or '}', one write of the
\* literal's value at the delimiter ending it (and a read per read token, a
\* write of the argument per 'w').
C3_OperationsInCommandOrder ==
    (pc = "returned" /\ LiteralsDelimited(command, 1, 10, FALSE))
    => ops = TableOps(command, CallerWriteValues, 1, 10, 0, FALSE, 0)

\* A lowercase 'b' is met while the radix is 16.
RECURSIVE HexLowerBReached(_, _, _)
HexLowerBReached(cmd, i, r) ==
    IF i > Len(cmd) THEN FALSE
    ELSE LET c == cmd[i] IN
         IF c = "b" THEN r = 16 \/ HexLowerBReached(cmd, i + 1, 2)
         ELSE IF c = "x" THEN HexLowerBReached(cmd, i + 1, 16)
         ELSE IF c \in TableDelimiters \/ c \in TableWriteTokens
         THEN HexLowerBReached(cmd, i + 1, 10)
         ELSE HexLowerBReached(cmd, i + 1, r)

\* What the code does: the same order of operations for the commands in
\* which no 'b' is met under radix 16.
OperationsInCommandOrderWithoutHexLowerB ==
    (pc = "returned" /\ LiteralsDelimited(command, 1, 10, FALSE)
     /\ ~HexLowerBReached(command, 1, 10))
    => ops = TableOps(command, CallerWriteValues, 1, 10, 0, FALSE, 0)

\* The particular case of C3: "[ 0x52 0x80 0x03 [ 0x53 s ]" against a device
\* that acknowledges everything gives start, write(0x52), write(0x80),
\* write(0x03), repeated start, write(0x53), read(LastByte), stop, and 1.
EnableSensorTrace ==
    (pc = "returned" /\ command = EnableSensorCommand /\ AlwaysAcknowledged)
    => /\ ops = <<Op("start", 0), Op("write", 82), Op("write", 128),
                  Op("write", 3), Op("start", 0), Op("write", 83),
                  Op("read", LastByte), Op("stop", 0)>>
       /\ done[1].status = TW_START
       /\ done[5].status = TW_REP_START
       /\ retval = 1

AtToken(tokens) == pc = "interp_loop" /\ ~AtEnd /\ Current \in tokens

\* C4: every character that is a digit valid under the current radix (0-9
\* under 10, 0-1 under 2, 0-9 a-f A-F under 16, lowercase 'b' included) is
\* accumulated: accumulator := accumulator * radix + digit (as a byte) and
\* pendingIsWrite := true, with the radix unchanged and no bus operation.
C4_ValidDigitsAccumulate ==
    [][(pc = "interp_loop" /\ ~AtEnd /\ TableDigit(Current, radix))
       => /\ to_transmit' = Byte(to_transmit * radix + TableDigitValue(Current))
          /\ is_transmission' = 1
          /\ radix' = radix
          /\ ops' = ops
          /\ cursor' = cursor + 1]_vars

\* What the code does: the same for every valid digit other than 'b'.
DigitsOtherThanLowerBAccumulate ==
    [][(pc = "interp_loop" /\ ~AtEnd /\ TableDigit(Current, radix)
        /\ Current # "b")
       => /\ to_transmit' = Byte(to_transmit * radix + TableDigitValue(Current))
          /\ is_transmission' = 1
          /\ radix' = radix
          /\ ops' = ops
          /\ cursor' = cursor + 1]_vars

\* The positions of the read operations among ops, in order.
ReadOps == SelectSeq([i \in 1 .. Len(ops) |-> i], LAMBDA i : ops[i].op = "read")

\* The read tokens of the command, in order.
ReadTokensOf(cmd) == SelectSeq(cmd, LAMBDA c : c \in TableReadTokens)

\* C5: the k-th read token (r, R, s or S, left to right) performs one read,
\* in mode RequestMore for r/R and LastByte for s/S, and the byte it returns
\* is stored in the k-th read slot the caller supplied.
C5_ReadsFillSlotsInOrder ==
    pc = "returned"
    => /\ Len(ReadOps) = Len(ReadTokensOf(command))
       /\ \A k \in 1 .. Len(ReadOps) :
            /\ ops[ReadOps[k]].arg =
                 (IF ReadTokensOf(command)[k] \in {"r", "R"} THEN RequestMore
                  ELSE LastByte)
            /\ memory[CallerReadSlots[k]] = done[ReadOps[k]].data

\* "[0x72 0xAC [0x73 r s]" has returned with both slots filled, in order.
C5_Witness ==
    /\ pc = "returned"
    /\ command = ReadTwoCommand
    /\ ops[6] = Op("read", RequestMore)
    /\ ops[7] = Op("read", LastByte)
    /\ memory = <<DeviceData[1], DeviceData[2]>>
    /\ retval = 2

\* C6: the value returned equals the number of reads performed, which equals
\* the number of r/R/s/S characters of the command, however many there are.
C6_ReturnCountsReads ==
    pc = "returned"
    => /\ retval = NumOps("read")
       /\ NumOps("read") = Len(ReadTokensOf(command))

\* What the code returns: that number modulo 2^8.
ReturnCountsReadsModulo256 ==
    pc = "returned"
    => /\ retval = NumOps("read") % 256
       /\ NumOps("read") = Len(ReadTokensOf(command))

\* The write tokens before the cursor.
WriteTokensBefore ==
    Cardinality({i \in 1 .. (cursor - 1) : command[i] \in TableWriteTokens})

ResetAndAdvance ==
    /\ radix' = 10
    /\ to_transmit' = 0
    /\ is_transmission' = 0
    /\ cursor' = cursor + 1
    /\ ops' = ops

\* C7: the k-th 'w' or 'W' consumes the caller's k-th write value and at once
\* issues exactly one write of that value, whatever literal was pending, and
\* the state is then reset to (radix 10, accumulator 0, nothing pending).
C7_WriteTokenSendsArgument ==
    /\ [][AtToken(TableWriteTokens)
          => /\ ops' = Append(ops, Op("write",
                                      CallerWriteValues[WriteTokensBefore + 1]))
             /\ pc' = "interp_write_wait"]_vars
    /\ [][(pc = "interp_write_wait" /\ Current \in TableWriteTokens
           /\ pc' # pc) => ResetAndAdvance]_vars

\* A 'w' reached with a literal pending has sent the argument and the state
\* is reset.
C7_Witness ==
    /\ pc = "interp_loop"
    /\ cursor > 2
    /\ command[cursor - 1] = "w"
    /\ command[cursor - 2] = "1"
    /\ ops[Len(ops)] = Op("write", CallerWriteValues[WriteTokensBefore])
    /\ ops[Len(ops)].arg # 1
    /\ radix = 10 /\ to_transmit = 0 /\ is_transmission = 0

\* C8: on a space or comma the interpreter issues a write of the accumulator
\* if and only if a literal is pending, and either way the state afterwards is
\* radix 10, accumulator 0, nothing pending.
C8_DelimiterFlushes ==
    /\ [][AtToken(TableDelimiters)
          => IF is_transmission # 0
             THEN /\ ops' = Append(ops, Op("write", to_transmit))
                  /\ pc' = "interp_write_wait"
             ELSE ResetAndAdvance]_vars
    /\ [][(pc = "interp_write_wait" /\ Current \in TableDelimiters
           /\ pc' # pc) => ResetAndAdvance]_vars

\* Two delimiters in a row after a literal: one write, and the reset state.
C8_Witness ==
    /\ pc = "interp_loop"
    /\ cursor > 3
    /\ command[cursor - 1] \in TableDelimiters
    /\ command[cursor - 2] \in TableDelimiters
    /\ command[cursor - 3] = "1"
    /\ ops[Len(ops)] = Op("write", 1)
    /\ NumOps("write") = 2
    /\ radix = 10 /\ to_transmit = 0 /\ is_transmission = 0

-----------------------------------------------------------------------------
(* An application calling the driver's functions one after another:        *)
(* send_twi_start_condition, start_twi_communication (and its two          *)
(* wrappers), ensure_twi_communication, send_via_twi, read_via_twi and     *)
(* end_twi_packet, in any order and with any arguments.                    *)

\* Driver primitives the application's calls may issue in all.
MaxDriverOps == 4

\* Bytes the application sends: a register number and the byte 0x53, which
\* right after a start condition addresses a slave for reading.
DataChoices == {128, 83}

\* The application is between two calls.
BetweenCalls == pc \in {"caller", "returned"} /\ Len(ops) < MaxDriverOps

\* The application talks to one slave, whose address it passes to every
\* function that takes one.
InitDriver ==
    /\ InitHardware
    /\ ops = <<>>
    /\ done = <<>>
    /\ address \in AddressChoices
    /\ direction = Write
    /\ twi_status = 0
    /\ f_cpu = F_CPU_DEFAULT
    /\ twi_bitrate = U32(0)
    /\ prescaler = 0
    /\ clock_periods = U32(0)
    /\ command = <<>>
    /\ cursor = 1
    /\ radix = 10
    /\ to_transmit = 0
    /\ is_transmission = 0
    /\ read_count = 0
    /\ va_args = <<>>
    /\ va_next = 1
    /\ read_target = 0
    /\ memory = <<>>
    /\ retval = 0
    /\ call = NoCall
    /\ first = NoRun
    /\ pc = "caller"

\* send_twi_start_condition() up to its wait.
CallSendTwiStartCondition ==
    /\ BetweenCalls
    /\ call' = Call("send_twi_start_condition")
    /\ UNCHANGED first
    /\ IssueStart
    /\ pc' = "start_wait"
    /\ UNCHANGED <<ensure, clock, interp, retval>>

\* ... and its return value.
SendTwiStartConditionReturn ==
    /\ pc = "start_wait"
    /\ OperationComplete
    /\ retval' = IF StartSucceeded THEN 1 ELSE 0
    /\ pc' = "returned"
    /\ UNCHANGED <<hw, trace, ensure, clock, interp, call, first>>

\* start_twi_communication(a, d), entered as fn, up to the wait of its start.
EnterStartTwiCommunication(fn, a, d) ==
    /\ call' = Call(fn)
    /\ UNCHANGED first
    /\ address' = a
    /\ direction' = d
    /\ IssueStart
    /\ pc' = "comm_start_wait"
    /\ UNCHANGED <<twi_status, clock, interp, retval>>

CallStartTwiCommunication ==
    /\ BetweenCalls
    /\ \E d \in {Read, Write} :
          EnterStartTwiCommunication("start_twi_communication", address, d)

\* start_twi_read_from(address): return start_twi_communication(address, Read)
CallStartTwiReadFrom ==
    /\ BetweenCalls
    /\ EnterStartTwiCommunication("start_twi_read_from", address, Read)

\* start_twi_write_to(address): return start_twi_communication(address, Write)
CallStartTwiWriteTo ==
    /\ BetweenCalls
    /\ EnterStartTwiCommunication("start_twi_write_to", address, Write)

\* if(!send_twi_start_condition()) return false; else the address byte.
StartTwiCommunicationStartDone ==
    /\ pc = "comm_start_wait"
    /\ OperationComplete
    /\ IF ~StartSucceeded
       THEN /\ retval' = 0
            /\ pc' = "returned"
            /\ UNCHANGED <<hw, trace>>
       ELSE /\ IssueWrite(AddressByte(address, direction))
            /\ pc' = "comm_address_wait"
            /\ UNCHANGED retval
    /\ UNCHANGED <<ensure, clock, interp, call, first>>

\* return (twi_status == TW_MT_SLA_ACK) || (twi_status == TW_MR_SLA_ACK)
AddressAcknowledged_TransmitOnly(status) == status = TW_MT_SLA_ACK
AddressAcknowledged(status) == status = TW_MT_SLA_ACK \/ status = TW_MR_SLA_ACK

StartTwiCommunicationReturn_StopsOnNack ==
    /\ pc = "comm_address_wait"
    /\ OperationComplete
    /\ twi_status' = RawWriteStatus
    /\ retval' = IF AddressAcknowledged(twi_status') THEN 1 ELSE 0
    /\ IF AddressAcknowledged(twi_status')
       THEN /\ pc' = "returned"
            /\ UNCHANGED <<hw, trace>>
       ELSE /\ IssueStop
            /\ pc' = "stop_wait"
    /\ UNCHANGED <<address, direction, clock, interp, call, first>>
StartTwiCommunicationReturn ==
    /\ pc = "comm_address_wait"
    /\ OperationComplete
    /\ twi_status' = RawWriteStatus
    /\ retval' = IF AddressAcknowledged(twi_status') THEN 1 ELSE 0
    /\ pc' = "returned"
    /\ UNCHANGED <<hw, trace, address, direction, clock, interp, call, first>>

\* ensure_twi_communication(a, d): into its loop.
CallEnsureTwiCommunication ==
    /\ BetweenCalls
    /\ call' = Call("ensure_twi_communication")
    /\ UNCHANGED first
    /\ direction' \in {Read, Write}
    /\ pc' = "ensure_loop"
    /\ UNCHANGED <<hw, trace, address, twi_status, clock, interp, retval>>

\* send_via_twi(data) up to the wait of raw_twi_write.
CallSendViaTwi ==
    /\ BetweenCalls
    /\ call' = Call("send_via_twi")
    /\ UNCHANGED first
    /\ \E data \in DataChoices : IssueWrite(data)
    /\ pc' = "send_wait"
    /\ UNCHANGED <<ensure, clock, interp, retval>>

SendViaTwiReturn ==
    /\ pc = "send_wait"
    /\ OperationComplete
    /\ retval' = IF SendAcknowledged THEN 1 ELSE 0
    /\ pc' = "returned"
    /\ UNCHANGED <<hw, trace, ensure, clock, interp, call, first>>

\* read_via_twi(read_mode) up to its wait.
CallReadViaTwi ==
    /\ BetweenCalls
    /\ call' = Call("read_via_twi")
    /\ UNCHANGED first
    /\ \E read_mode \in {RequestMore, LastByte} : IssueRead(read_mode)
    /\ pc' = "read_wait"
    /\ UNCHANGED <<ensure, clock, interp, retval>>

\* return TWDR;
ReadViaTwiReturn ==
    /\ pc = "read_wait"
    /\ OperationComplete
    /\ retval' = TWDR
    /\ pc' = "returned"
    /\ UNCHANGED <<hw, trace, ensure, clock, interp, call, first>>

\* end_twi_packet() up to its wait.
CallEndTwiPacket ==
    /\ BetweenCalls
    /\ call' = Call("end_twi_packet")
    /\ UNCHANGED first
    /\ IssueStop
    /\ pc' = "stop_wait"
    /\ UNCHANGED <<ensure, clock, interp, retval>>

EndTwiPacketReturn ==
    /\ pc = "stop_wait"
    /\ StopComplete
    /\ pc' = "returned"
    /\ UNCHANGED <<hw, trace, ensure, clock, interp, retval, call, first>>

NextDriver ==
    \/ CallSendTwiStartCondition
    \/ SendTwiStartConditionReturn
    \/ CallStartTwiCommunication
    \/ CallStartTwiReadFrom
    \/ CallStartTwiWriteTo
    \/ StartTwiCommunicationStartDone
    \/ StartTwiCommunicationReturn
    \/ CallEnsureTwiCommunication
    \/ EnsureStart
    \/ EnsureStartDone
    \/ EnsureAddressDone
    \/ EnsureStopDone
    \/ CallSendViaTwi
    \/ SendViaTwiReturn
    \/ CallReadViaTwi
    \/ ReadViaTwiReturn
    \/ CallEndTwiPacket
    \/ EndTwiPacketReturn
    \/ HwStart
    \/ HwAddress
    \/ HwTransmit
    \/ HwReceive
    \/ HwStop

SpecDriver == InitDriver /\ [][NextDriver]_vars

-----------------------------------------------------------------------------
(* What each function returned, against what the hardware answered.        *)

Returned(fn) == pc = "returned" /\ call.fn = fn

AddressedStarts ==
    {"start_twi_communication", "start_twi_read_from", "start_twi_write_to"}

\* The hardware's answer to the n-th primitive of the call under way.
Answer(n) == done[call.base + n]

BusObtained == {TW_START, TW_REP_START}

\* C12: start_twi_communication returns false at once when its start
\* condition fails, having sent no address byte and issued no stop; otherwise
\* it returns true if and only if the status after the address byte is
\* MT_SLA_ACK or MR_SLA_ACK.
C12_AddressedStartResult ==
    (pc = "returned" /\ call.fn \in AddressedStarts) =>
        IF Answer(1).status \notin BusObtained
        THEN /\ retval = 0
             /\ Len(ops) = call.base + 1
        ELSE /\ Len(ops) = call.base + 2
             /\ ops[call.base + 2].op = "write"
             /\ retval = (IF Answer(2).status \in {TW_MT_SLA_ACK, TW_MR_SLA_ACK}
                          THEN 1 ELSE 0)

\* An addressed start that lost the bus at its start condition: false, and
\* the start is the only primitive it issued.
C12_Witness ==
    /\ Returned("start_twi_communication")
    /\ Answer(1).status = TW_MT_ARB_LOST
    /\ Len(ops) = call.base + 1
    /\ ops[Len(ops)].op = "start"
    /\ retval = 0

\* C13: send_twi_start_condition returns true if and only if the masked
\* status after the start is START or REPEATED_START, false for every other
\* status.
C13_StartConditionResult ==
    Returned("send_twi_start_condition") =>
        /\ Len(ops) = call.base + 1
        /\ retval = (IF Answer(1).status \in BusObtained THEN 1 ELSE 0)

\* A repeated start reported as success while the prescaler bits of TWSR are
\* set.
C13_Witness ==
    /\ Returned("send_twi_start_condition")
    /\ Answer(1).status = TW_REP_START
    /\ TWSR % 8 # 0
    /\ retval = 1

\* The start conditions of the call under way that obtained the bus.
StartsObtained ==
    {i \in (call.base + 1) .. Len(done) :
        ops[i].op = "start" /\ done[i].status \in BusObtained}

\* C14: for every 7-bit address and direction, start_twi_communication and
\* ensure_twi_communication transmit right after the start condition exactly
\* one byte, (address << 1) | direction, whose low bit is 1 for Read and 0 for
\* Write; start_twi_read_from and start_twi_write_to are
\* start_twi_communication with direction Read and Write.
C14_AddressByteAfterStart ==
    (call.fn \in AddressedStarts \cup {"ensure_twi_communication"}
     /\ address < 2 ^ 7) =>
        /\ \A i \in StartsObtained :
              /\ pc = "returned" => Len(ops) > i
              /\ Len(ops) > i =>
                    /\ ops[i + 1] = Op("write", address * 2 + direction)
                    /\ ops[i + 1].arg % 2 = (IF direction = Read THEN 1 ELSE 0)
              /\ Len(ops) > i + 1 => ops[i + 2].op # "write"
        /\ call.fn = "start_twi_read_from" => direction = Read
        /\ call.fn = "start_twi_write_to" => direction = Write

\* start_twi_read_from(0x29) has returned having sent 0x53 after its start.
C14_Witness ==
    /\ Returned("start_twi_read_from")
    /\ address = 41
    /\ Answer(1).status \in BusObtained
    /\ ops[call.base + 2] = Op("write", 83)

\* C15: send_via_twi transmits exactly one byte and returns true if and only
\* if the resulting masked status is MT_DATA_ACK; it causes no start and no
\* stop condition.
C15_SendResult ==
    Returned("send_via_twi") =>
        /\ Len(ops) = call.base + 1
        /\ ops[call.base + 1].op = "write"
        /\ retval = (IF Answer(1).status = TW_MT_DATA_ACK THEN 1 ELSE 0)

\* A byte sent right after a start was acknowledged as an address: false.
C15_Witness ==
    /\ Returned("send_via_twi")
    /\ Answer(1).status = TW_MT_SLA_ACK
    /\ TWSR % 8 # 0
    /\ retval = 0

\* C16: read_via_twi asserts the acknowledge-enable bit exactly when its mode
\* is RequestMore, withholds it exactly when the mode is LastByte, and in
\* both modes returns the byte in the data register once the operation is
\* complete.
C16_ReadAcknowledgeAndResult ==
    (call.fn = "read_via_twi" /\ pc \in {"read_wait", "returned"}) =>
        /\ ops[call.base + 1].arg = RequestMore => "TWEA" \in TWCR
        /\ ops[call.base + 1].arg = LastByte => "TWEA" \notin TWCR
        /\ pc = "returned" =>
              /\ Len(ops) = call.base + 1
              /\ retval = TWDR
              /\ retval = Answer(1).data
              /\ Answer(1).status = TW_MR_DATA_ACK
                    => ops[call.base + 1].arg = RequestMore
              /\ Answer(1).status = TW_MR_DATA_NACK
                    => ops[call.base + 1].arg = LastByte

\* The first byte of the slave read in LastByte mode: not acknowledged.
C16_Witness ==
    /\ Returned("read_via_twi")
    /\ ops[Len(ops)] = Op("read", LastByte)
    /\ "TWEA" \notin TWCR
    /\ Answer(1).status = TW_MR_DATA_NACK
    /\ retval = DeviceData[1]

\* The start conditions that failed and were followed by another primitive.
FailedStartsFollowed ==
    {i \in 1 .. Len(done) :
        /\ ops[i].op = "start"
        /\ done[i].status \notin BusObtained
        /\ Len(ops) > i}

\* C17: when a start condition inside ensure_twi_communication fails
\* (arbitration lost), the attempt is retried at once: no stop condition is
\* issued and no address byte is sent for that attempt; the next primitive is
\* the start of the next attempt.
C17_FailedStartRetriedAtOnce ==
    /\ \A i \in FailedStartsFollowed : ops[i + 1].op = "start"
    /\ (pc = "ensure_start_wait" /\ OperationComplete
        /\ done[Len(done)].status \notin BusObtained)
       => Len(ops) = Len(done)

\* A start that lost the bus, the next start, and the address byte after it.
C17_Witness ==
    /\ Len(ops) >= 3
    /\ done[1].status = TW_MT_ARB_LOST
    /\ ops[2].op = "start"
    /\ done[2].status = TW_START
    /\ ops[3] = Op("write", AddressByte(address, direction))

IdleEquivalent ==
    /\ "TWSTO" \notin TWCR
    /\ "TWSTA" \notin TWCR
    /\ MaskedStatus(TWSR) = TW_NO_INFO

\* An address or data phase, a start or a stop is pending in the hardware.
HardwareCanAct ==
    ENABLED (HwStart \/ HwAddress \/ HwTransmit \/ HwReceive \/ HwStop)

\* C18: outside ensure_twi_communication the driver never issues a stop of
\* its own: send_twi_start_condition, start_twi_communication, send_via_twi
\* and read_via_twi issue no stop whatever the status, so after an address
\* NACK the session stays non-idle until the caller calls end_twi_packet.
C18_NoStopOfItsOwn ==
    /\ [][(Len(ops') > Len(ops) /\ ops'[Len(ops')].op = "stop")
          => call'.fn \in {"end_twi_packet", "ensure_twi_communication"}]_vars
    /\ [](/\ (Len(done) > 0 /\ IdleEquivalent) => ops[Len(done)].op = "stop"
          /\ (pc = "returned" /\ call.fn \in AddressedStarts
              /\ Len(ops) = call.base + 2
              /\ Answer(2).status \in AddressNack)
             => (/\ retval = 0
                 /\ ~IdleEquivalent
                 /\ MaskedStatus(TWSR) = Answer(2).status))

\* start_twi_communication has returned false on an address NACK and the bus
\* is still held.
C18_Witness ==
    /\ Returned("start_twi_communication")
    /\ Len(ops) = call.base + 2
    /\ Answer(2).status = TW_MR_SLA_NACK
    /\ MaskedStatus(TWSR) = TW_MR_SLA_NACK
    /\ NumOps("stop") = 0
    /\ retval = 0

\* C19: send_twi_start_condition immediately followed by end_twi_packet
\* leaves the session idle-equivalent, with no address or data phase pending,
\* whether or not the start obtained the bus.
C19_StartThenStopIsIdle ==
    (Returned("end_twi_packet") /\ call.base >= 1
     /\ ops[call.base].op = "start") =>
        /\ IdleEquivalent
        /\ ~HardwareCanAct

\* A start that lost the bus, then a stop, and the session is idle-equivalent.
C19_Witness ==
    /\ Returned("end_twi_packet")
    /\ call.base = 1
    /\ ops[1].op = "start"
    /\ done[1].status = TW_MT_ARB_LOST
    /\ IdleEquivalent

\* The application calling only the five primitives.
NextPrimitives ==
    \/ CallSendTwiStartCondition
    \/ SendTwiStartConditionReturn
    \/ CallStartTwiCommunication
    \/ StartTwiCommunicationStartDone
    \/ StartTwiCommunicationReturn
    \/ CallSendViaTwi
    \/ SendViaTwiReturn
    \/ CallReadViaTwi
    \/ ReadViaTwiReturn
    \/ CallEndTwiPacket
    \/ EndTwiPacketReturn
    \/ HwStart
    \/ HwAddress
    \/ HwTransmit
    \/ HwReceive
    \/ HwStop

\* The hardware executes a stop it was asked for, and the wait loop of
\* end_twi_packet sees TWSTO cleared.
SpecPrimitivesFair ==
    /\ InitDriver
    /\ [][NextPrimitives]_vars
    /\ WF_vars(HwStop)
    /\ WF_vars(EndTwiPacketReturn)

InEndTwiPacket == call.fn = "end_twi_packet" /\ pc = "stop_wait"

\* C20: end_twi_packet is idempotent and safe from idle: from any phase it
\* returns, only after the hardware has cleared the stop bit, and leaves the
\* session idle-equivalent; it changes nothing else, so a second call (or a
\* call from idle) returns and leaves the same idle-equivalent state.
C20_StopIdempotent ==
    /\ [](Returned("end_twi_packet")
          => (TWCR = {"TWEN"} /\ IdleEquivalent /\ ~HardwareCanAct))
    /\ [][(InEndTwiPacket \/ InEndTwiPacket')
          => /\ TWDR' = TWDR
             /\ TWBR' = TWBR
             /\ TWSR' % 8 = TWSR % 8
             /\ pc' = "returned" => "TWSTO" \notin TWCR]_vars
    /\ (InEndTwiPacket ~> Returned("end_twi_packet"))

\* A second end_twi_packet in a row has returned, after a session that got as
\* far as an acknowledged address.
C20_Witness ==
    /\ Returned("end_twi_packet")
    /\ Len(ops) = 4
    /\ done[2].status \in AddressAck
    /\ ops[3].op = "stop"
    /\ ops[4].op = "stop"
    /\ TWCR = {"TWEN"}
    /\ IdleEquivalent

-----------------------------------------------------------------------------
(* The session phases, read off the status the hardware reported last.     *)

\* The status the hardware had reported when the i-th primitive was issued.
StatusBefore(i) == IF i = 1 THEN TW_NO_INFO ELSE done[i - 1].status

\* Idle or stopped (0xF8), or started but without the bus (arbitration lost).
OffSession(status) == status \in {TW_NO_INFO, TW_MT_ARB_LOST}

ByteOperations == {i \in 1 .. Len(ops) : ops[i].op \in {"write", "read"}}

\* C21: in every reachable state, a byte write or read has been performed
\* only while the session was addressed or transferring: no byte operation is
\* issued to the hardware from idle, from a start that did not obtain the bus,
\* or after a stop.
C21_ByteOperationsOnlyInSession ==
    \A i \in ByteOperations : ~OffSession(StatusBefore(i))

\* What the code does: it issues the operation whatever the phase, and one
\* issued off session is never completed by the hardware.
ByteOperationOffSessionNeverCompletes ==
    \A i \in ByteOperations : OffSession(StatusBefore(i)) => Len(done) < i

TableTokens ==
    {"[", "{", "]", "}", "x", "b", "&"}
    \cup TableReadTokens \cup TableWriteTokens \cup TableDelimiters

C23_RadixTokenKeepsAccumulator ==
    /\ [][(pc = "interp_loop" /\ ~AtEnd /\ Current \in {"x", "b"})
          => /\ radix' = (IF Current = "x" THEN 16 ELSE 2)
             /\ UNCHANGED <<to_transmit, is_transmission, trace, hw>>
             /\ cursor' = cursor + 1]_vars
    /\ []((command = HexLiteralCommand /\ Len(ops) >= 2)
          => ops[2] = Op("write", 31))

\* "[0x1F ]" has returned having written 0x1F.
C23_Witness ==
    /\ pc = "returned"
    /\ command = HexLiteralCommand
    /\ ops[2] = Op("write", 31)
    /\ Len(ops) = 3

\* The tokens that are neither digits, radix tokens, delimiters nor 'w'.
TableOtherTokens == {"[", "{", "]", "}", "&"} \cup TableReadTokens

WriteIssued == Len(ops') > Len(ops) /\ ops'[Len(ops')].op = "write"

\* C27: a numeric literal is transmitted only at a space or comma: start,
\* stop, read and '&' tokens leave (radix, accumulator, pending) unchanged and
\* do not flush a pending literal (in "[0x52]" the stop is issued and 0x52 is
\* never written), and a literal still pending at the end of the string is
\* discarded without any write.
C27_LiteralSentOnlyAtDelimiter ==
    /\ [][(~AtEnd /\ Current \in TableOtherTokens)
          => /\ UNCHANGED <<radix, to_transmit, is_transmission>>
             /\ ~WriteIssued]_vars
    /\ [][WriteIssued
          => \/ Current \in TableDelimiters
                /\ ops'[Len(ops')].arg = to_transmit
             \/ Current \in TableWriteTokens]_vars
    /\ [][(pc = "interp_loop" /\ AtEnd)
          => (ops' = ops /\ pc' = "returned")]_vars
    /\ []((command = UndelimitedCommand /\ pc = "returned")
          => ops = <<Op("start", 0), Op("stop", 0)>>)

\* "[0x52]" has returned: a start and a stop, the literal 0x52 still pending.
C27_Witness ==
    /\ pc = "returned"
    /\ command = UndelimitedCommand
    /\ ops = <<Op("start", 0), Op("stop", 0)>>
    /\ to_transmit = 82
    /\ is_transmission = 1

\* The writes of the two literals above 255: "[w256 " and "[w300 ".
WrapExamples ==
    /\ (command = <<"[", "w", "2", "5", "6", " ">> /\ Len(ops) >= 3)
       => ops[3] = Op("write", 256 % 256)
    /\ (command = <<"[", "w", "3", "0", "0", " ">> /\ Len(ops) >= 3)
       => ops[3] = Op("write", 300 % 256)

AccumulatedModulo256 ==
    /\ to_transmit' = (to_transmit * radix + TableDigitValue(Current)) % 256
    /\ to_transmit' \in 0 .. 255
    /\ pc' = "interp_loop"

\* C28: the accumulator is an 8-bit value: after each digit it equals
\* (accumulator * radix + digit) mod 256, so the byte written for a
\* delimiter-terminated literal is its value modulo 256 (decimal "256 "
\* writes 0, "300 " writes 44), and no error is raised for literals above 255.
C28_AccumulatorIsByte ==
    /\ [][(pc = "interp_loop" /\ ~AtEnd /\ TableDigit(Current, radix))
          => AccumulatedModulo256]_vars
    /\ []WrapExamples

\* What the code does: the same for every digit other than 'b' under radix
\* 16, which it takes for the radix token.
AccumulatorIsByteForOtherDigits ==
    /\ [][(pc = "interp_loop" /\ ~AtEnd /\ TableDigit(Current, radix)
           /\ Current # "b")
          => AccumulatedModulo256]_vars
    /\ []WrapExamples

\* "[w300 " has written 44.
WrapReached ==
    /\ command = <<"[", "w", "3", "0", "0", " ">>
    /\ Len(ops) = 3
    /\ ops[3] = Op("write", 44)

-----------------------------------------------------------------------------
(* The loop of perform_bus_pirate_twi_command run over the whole string     *)
(* with every result of a primitive dropped: the primitives it calls from    *)
(* character i on, in state (r, acc, flag), n being the next argument.       *)

RECURSIVE PrimitivesCalled(_, _, _, _, _, _, _)
PrimitivesCalled(cmd, args, i, r, acc, flag, n) ==
    IF i > Len(cmd) THEN <<>>
    ELSE LET c == cmd[i]
             case == TokenCase(c)
         IN  IF case = "start"
             THEN <<Op("start", 0)>>
                  \o PrimitivesCalled(cmd, args, i + 1, r, acc, flag, n)
             ELSE IF case = "stop"
             THEN <<Op("stop", 0)>>
                  \o PrimitivesCalled(cmd, args, i + 1, r, acc, flag, n)
             ELSE IF case = "hex"
             THEN PrimitivesCalled(cmd, args, i + 1, 16, acc, flag, n)
             ELSE IF case = "binary"
             THEN PrimitivesCalled(cmd, args, i + 1, 2, acc, flag, n)
             ELSE IF case = "read"
             THEN <<Op("read", ReadModeOf(c))>>
                  \o PrimitivesCalled(cmd, args, i + 1, r, acc, flag, n + 1)
             ELSE IF case = "write"
             THEN <<Op("write", ArgumentToTransmit(acc, args[n].val))>>
                  \o PrimitivesCalled(cmd, args, i + 1, 10, 0, 0, n + 1)
             ELSE IF case = "delimiter"
             THEN (IF QueuedTransmission(flag) THEN <<Op("write", acc)>>
                   ELSE <<>>)
                  \o PrimitivesCalled(cmd, args, i + 1, 10, 0, 0, n)
             ELSE IF case = "default" /\ IsLiteralPiece(c, r)
             THEN PrimitivesCalled(cmd, args, i + 1, r, Accumulate(acc, r, c),
                                   1, n)
             ELSE PrimitivesCalled(cmd, args, i + 1, r, acc, flag, n)

AnyFailure ==
    {TW_MT_ARB_LOST, TW_MT_SLA_NACK, TW_MR_SLA_NACK, TW_MT_DATA_NACK}

\* C26: the interpreter ignores the results of the primitives it calls: for a
\* fixed command string and fixed write values the sequence of primitives
\* issued (start, stop, write with its value, read with its mode) is the same
\* for every pattern of arbitration failures and ACK/NACK answers, and no
\* failure is reported in the value returned.
C26_ResultsIgnored ==
    LET all == PrimitivesCalled(command, va_args, 1, 10, 0, 0, 1) IN
    /\ Len(ops) <= Len(all)
    /\ ops = SubSeq(all, 1, Len(ops))
    /\ pc = "returned" =>
          /\ ops = all
          /\ retval = Len(ReadTokensOf(command)) % 256

\* "[ 0x72 0x80 w ]" has run to its end with the address and both data bytes
\* refused.
C26_Witness ==
    /\ pc = "returned"
    /\ command = WriteArgumentCommand
    /\ Len(ops) = 5
    /\ done[2].status = TW_MT_SLA_NACK
    /\ done[3].status = TW_MT_DATA_NACK
    /\ done[4].status = TW_MT_DATA_NACK
    /\ retval = 0

-----------------------------------------------------------------------------
(* An application that either interprets one command and then goes on with  *)
(* the primitives, or calls the primitives only.                             *)

\* perform_bus_pirate_twi_command(cmd, ...) entered: the initialisers of its
\* locals and va_start.
CallPerformBusPirateTwiCommand ==
    /\ pc = "caller"
    /\ \E cmd \in SampleCommands, pattern \in WriteValuePatterns :
          /\ command' = cmd
          /\ va_args' = ArgumentsFor(cmd, WriteValuesFor(cmd, pattern))
          /\ memory' = [k \in 1 .. CountUpTo(cmd, Len(cmd), "read") |->
                            "untouched"]
    /\ cursor' = 1
    /\ radix' = 10
    /\ to_transmit' = 0
    /\ is_transmission' = 0
    /\ read_count' = 0
    /\ va_next' = 1
    /\ read_target' = 0
    /\ call' = Call("perform_bus_pirate_twi_command")
    /\ UNCHANGED first
    /\ pc' = "interp_loop"
    /\ UNCHANGED <<hw, trace, ensure, clock, retval>>

NextApplication ==
    \/ CallPerformBusPirateTwiCommand
    \/ InterpStart
    \/ InterpStartDone
    \/ InterpStop
    \/ InterpStopDone
    \/ InterpRadix
    \/ InterpRead
    \/ InterpReadDone
    \/ InterpWriteArgument
    \/ InterpDelimiter
    \/ InterpWriteDone
    \/ InterpDelay
    \/ InterpDefault
    \/ InterpReturn
    \/ CallSendTwiStartCondition
    \/ SendTwiStartConditionReturn
    \/ CallStartTwiCommunication
    \/ StartTwiCommunicationStartDone
    \/ StartTwiCommunicationReturn
    \/ CallSendViaTwi
    \/ SendViaTwiReturn
    \/ CallReadViaTwi
    \/ ReadViaTwiReturn
    \/ CallEndTwiPacket
    \/ EndTwiPacketReturn
    \/ HwStart
    \/ HwAddress
    \/ HwTransmit
    \/ HwReceive
    \/ HwStop

\* The processor keeps running and the hardware keeps working: a step that
\* stays possible is taken.
SpecApplicationFair ==
    /\ InitDriver
    /\ [][NextApplication]_vars
    /\ WF_vars(NextApplication)

\* The positions inside wait_for_twi_operation_to_complete and inside the
\* loop of end_twi_packet.
TransferWaits ==
    {"start_wait", "comm_start_wait", "comm_address_wait", "send_wait",
     "read_wait", "interp_start_wait", "interp_write_wait", "interp_read_wait"}
StopWaits == {"stop_wait", "interp_stop_wait"}

\* The driver waits for an operation the hardware will never complete.
Silent ==
    /\ pc \in TransferWaits
    /\ "TWINT" \notin TWCR
    /\ ~HardwareCanAct

InInterpreter ==
    call.fn = "perform_bus_pirate_twi_command" /\ pc # "returned"

\* C25: every hardware wait is an unbounded busy-poll: while the hardware
\* does not raise the operation-complete flag (or clear the stop bit) no
\* function returns; and if the hardware completes every operation, each
\* primitive returns and the interpreter returns, after a single pass that
\* visits each character of the command once.
C25_BusyPollAndSinglePass ==
    /\ [][(pc \in TransferWaits /\ pc' # pc) => "TWINT" \in TWCR]_vars
    /\ [][(pc \in StopWaits /\ pc' # pc) => "TWSTO" \notin TWCR]_vars
    /\ [][Silent => Silent']_vars
    /\ (pc \in TransferWaits \cup StopWaits /\ ~Silent)
          ~> (pc \in {"returned", "interp_loop", "comm_address_wait"})
    /\ InInterpreter ~> (pc = "returned" \/ Silent)
    /\ [][InInterpreter => cursor' \in {cursor, cursor + 1}]_vars
    /\ []((call.fn = "perform_bus_pirate_twi_command" /\ pc = "returned")
          => cursor = Len(command) + 1)

\* The interpreter waits for ever for the write it issued after a start that
\* lost the bus.
C25_Witness ==
    /\ pc = "interp_write_wait"
    /\ Silent
    /\ Len(done) = 1
    /\ done[1].status = TW_MT_ARB_LOST
    /\ Len(ops) = 2

-----------------------------------------------------------------------------
(* A caller that interprets one command twice, the device and the bus being *)
(* put back between the two runs and the device answering the second run    *)
(* as it answered the first.                                                 *)

\* "[16 0x10 ]": a decimal literal, then a hexadecimal one.
MixedRadixCommand == <<"[", "1", "6", " ", "0", "x", "1", "0", " ", "]">>

TwiceCommands == SampleCommands \cup {MixedRadixCommand}

InitTwice ==
    \E cmd \in TwiceCommands, pattern \in WriteValuePatterns :
        InterpCall(cmd, WriteValuesFor(cmd, pattern))

\* perform_bus_pirate_twi_command entered again with the same command and the
\* same arguments: its locals are automatic variables with initialisers, and
\* va_start restarts the argument list.
InterpCallAgain_KeepsRadix ==
    /\ pc = "returned"
    /\ call.fn = "perform_bus_pirate_twi_command"
    /\ ~first.taken
    /\ first' = [taken |-> TRUE, ops |-> ops, done |-> done,
                 memory |-> memory, retval |-> retval]
    /\ TWCR' = {}
    /\ TWDR' = 255
    /\ TWSR' = SetStatus(TWSR, TW_NO_INFO)
    /\ ops' = <<>>
    /\ done' = <<>>
    /\ memory' = [k \in DOMAIN memory |-> "untouched"]
    /\ cursor' = 1
    /\ radix' = radix
    /\ to_transmit' = 0
    /\ is_transmission' = 0
    /\ read_count' = 0
    /\ va_next' = 1
    /\ read_target' = 0
    /\ call' = [fn |-> "perform_bus_pirate_twi_command", base |-> 0]
    /\ pc' = "interp_loop"
    /\ UNCHANGED <<TWBR, ensure, clock, command, va_args, retval>>
InterpCallAgain ==
    /\ pc = "returned"
    /\ call.fn = "perform_bus_pirate_twi_command"
    /\ ~first.taken
    /\ first' = [taken |-> TRUE, ops |-> ops, done |-> done,
                 memory |-> memory, retval |-> retval]
    /\ TWCR' = {}
    /\ TWDR' = 255
    /\ TWSR' = SetStatus(TWSR, TW_NO_INFO)
    /\ ops' = <<>>
    /\ done' = <<>>
    /\ memory' = [k \in DOMAIN memory |-> "untouched"]
    /\ cursor' = 1
    /\ radix' = 10
    /\ to_transmit' = 0
    /\ is_transmission' = 0
    /\ read_count' = 0
    /\ va_next' = 1
    /\ read_target' = 0
    /\ call' = [fn |-> "perform_bus_pirate_twi_command", base |-> 0]
    /\ pc' = "interp_loop"
    /\ UNCHANGED <<TWBR, ensure, clock, command, va_args, retval>>

\* The device is deterministic: in the second run it answers as in the first.
Replays ==
    first.taken =>
        /\ Len(done') <= Len(first.done)
        /\ done' = SubSeq(first.done, 1, Len(done'))

DeviceStart == HwStart /\ Replays
DeviceAddress == HwAddress /\ Replays
DeviceTransmit == HwTransmit /\ Replays
DeviceReceive == HwReceive /\ Replays
DeviceStop == HwStop /\ Replays

NextTwice ==
    \/ InterpStart
    \/ InterpStartDone
    \/ InterpStop
    \/ InterpStopDone
    \/ InterpRadix
    \/ InterpRead
    \/ InterpReadDone
    \/ InterpWriteArgument
    \/ InterpDelimiter
    \/ InterpWriteDone
    \/ InterpDelay
    \/ InterpDefault
    \/ InterpReturn
    \/ InterpCallAgain
    \/ DeviceStart
    \/ DeviceAddress
    \/ DeviceTransmit
    \/ DeviceReceive
    \/ DeviceStop

SpecTwice == InitTwice /\ [][NextTwice]_vars

\* C24: the second of two runs of one command with the same arguments, on
\* the same device from the same bus state, starts with radix 10, an empty
\* accumulator, no write queued and a read count of 0, issues the bus
\* operations of the first run in the same order, and returns with the same
\* stored read values and the same read count.
C24_SecondRunRepeatsFirst ==
    /\ [][(first'.taken /\ ~first.taken) =>
            /\ radix' = 10
            /\ to_transmit' = 0
            /\ is_transmission' = 0
            /\ read_count' = 0
            /\ va_next' = 1]_vars
    /\ [](first.taken =>
            /\ Len(ops) <= Len(first.ops)
            /\ ops = SubSeq(first.ops, 1, Len(ops))
            /\ Len(done) <= Len(first.done)
            /\ done = SubSeq(first.done, 1, Len(done))
            /\ pc = "returned" =>
                  /\ ops = first.ops
                  /\ done = first.done
                  /\ memory = first.memory
                  /\ retval = first.retval)

\* A second run has returned after several bus operations, one of them
\* refused by the device, and a byte read.
C24_Witness ==
    /\ first.taken
    /\ pc = "returned"
    /\ Len(ops) >= 4
    /\ retval >= 1
    /\ memory = <<DeviceData[1]>>
    /\ \E i \in DOMAIN done : done[i].status = TW_MT_DATA_NACK

\* The second run of "[16 0x10 ]" has written 16 twice.
SecondRunMixedRadix ==
    /\ first.taken
    /\ pc = "returned"
    /\ command = MixedRadixCommand
    /\ \E i, j \in DOMAIN ops :
          /\ i < j
          /\ ops[i] = Op("write", 16)
          /\ ops[j] = Op("write", 16)

====
